---- MODULE Spec2Model ----
(***************************************************************************)
(* Model of QMLLogger::CSVLogger (src/src/CSVLogger.cpp): the line builder *)
(* (buildLogLine, buildHeaderString) and the file session state machine    *)
(* (constructor, setFilename, setLogTime, setHeader, log, close).          *)
(*                                                                         *)
(* Strings are sequences of tokens, so that concatenation is \o and the    *)
(* empty string is << >>.  A file is a sequence of lines; each line keeps  *)
(* its text and the statement of log() that wrote it (kind).               *)
(***************************************************************************)
EXTENDS Integers, Sequences, FiniteSets, TLC

(* ------------------------------ bounds -------------------------------- *)

\* Most lines (header and data lines together) held by all files at once.
MaxLines == 3

(* --------------------------- program constants ------------------------ *)

timestampHeader == <<"timestamp">>
logMillis == TRUE
precision == 2

\* QStandardPaths::writableLocation(DocumentsLocation / AppDataLocation)
DocumentsLocation == <<"/", "docs">>

(* ------------------------------ inputs -------------------------------- *)

\* File names a caller passes to setFilename: a relative and an absolute one.
Filenames == { <<"r">>, <<"/", "a">> }

\* Header lists a caller passes to setHeader.
Headers == { << >>, <<"a">> }

\* Rows a caller passes to log(): QVariant values, a double (given in
\* thousandths) or a string.
Rows == { << >>, << [type |-> "Double", milli |-> 3146] >> }

\* Readings of QDateTime::currentDateTime(): seconds part and milliseconds.
Times == { [sec |-> "12:00:00", ms |-> "007"] }

\* What the file system does to the reopen step of log().
OpenOutcomes == { "ok", "mkpathFails", "openFails" }

(* --------------------------- string helpers --------------------------- *)

Digit(n) == <<"0", "1", "2", "3", "4", "5", "6", "7", "8", "9">>[n + 1]

RECURSIVE Pow10(_)
Pow10(n) == IF n = 0 THEN 1 ELSE 10 * Pow10(n - 1)

RECURSIVE Digits(_)
\* decimal digits of a natural number, most significant first
Digits(n) == IF n < 10 THEN <<Digit(n)>> ELSE Digits(n \div 10) \o <<Digit(n % 10)>>

RECURSIVE FracDigits(_, _)
\* exactly k decimal digits of n, zero padded on the left
FracDigits(n, k) == IF k = 0 THEN << >> ELSE FracDigits(n \div 10, k - 1) \o <<Digit(n % 10)>>

\* QString::number(real, 'f', prec) for a non-negative real given in
\* thousandths: round to prec fractional digits, print fixed-point.
NumberF(milli, prec) ==
    LET unit   == Pow10(3 - prec)
        scaled == (milli + unit \div 2) \div unit
    IN  Digits(scaled \div Pow10(prec))
          \o (IF prec > 0 THEN <<".">> \o FracDigits(scaled % Pow10(prec), prec) ELSE << >>)

\* datum.type() == QVariant::Double ? QString::number(...) : datum.toString()
Render(datum) ==
    IF datum.type = "Double" THEN NumberF(datum.milli, precision) ELSE datum.s

\* QDateTime::toString("yyyy-MM-dd HH:mm:ss.zzz") / ("yyyy-MM-dd HH:mm:ss")
FormatTime(t) == IF logMillis THEN <<t.sec, ".", t.ms>> ELSE <<t.sec>>

(* ----------------------------- line builder --------------------------- *)

RECURSIVE LogLineRest(_, _)
\* the for loop of buildLogLine: ", " + datum for i = from .. size-1
LogLineRest(data, from) ==
    IF from > Len(data) THEN << >>
    ELSE <<", ">> \o Render(data[from]) \o LogLineRest(data, from + 1)

buildLogLine(lt, data, t) ==
    (IF lt THEN FormatTime(t) ELSE << >>)
      \o (IF Len(data) > 0
          THEN (IF lt THEN <<", ">> ELSE << >>) \o Render(data[1])
          ELSE << >>)
      \o LogLineRest(data, 2)

\* fault: the warning is given only for a row shorter than the header
LengthWarningShortOnly(hdr, data) == IF Len(data) < Len(hdr) THEN 1 ELSE 0

\* qWarning() of buildLogLine: data.size() != header.size()
LengthWarning(hdr, data) == IF Len(data) # Len(hdr) THEN 1 ELSE 0

RECURSIVE HeaderRest(_, _)
HeaderRest(hdr, from) ==
    IF from > Len(hdr) THEN << >>
    ELSE <<", ">> \o <<hdr[from]>> \o HeaderRest(hdr, from + 1)

\* fault: the ", " between the timestamp column and the first entry is left out
buildHeaderStringNoSep(lt, hdr) ==
    (IF lt THEN timestampHeader ELSE << >>)
      \o (IF Len(hdr) > 0 THEN <<hdr[1]>> ELSE << >>)
      \o HeaderRest(hdr, 2)

buildHeaderString(lt, hdr) ==
    (IF lt THEN timestampHeader ELSE << >>)
      \o (IF Len(hdr) > 0
          THEN (IF lt THEN <<", ">> ELSE << >>) \o <<hdr[1]>>
          ELSE << >>)
      \o HeaderRest(hdr, 2)

(* ------------------------------- paths -------------------------------- *)

\* QDir(filename).isAbsolute()
IsAbsolute(f) == Len(f) > 0 /\ f[1] = "/"

\* writableLocation + "/" + filename
Resolved(f) == IF IsAbsolute(f) THEN f ELSE DocumentsLocation \o <<"/">> \o f

\* a path that ends in "/" names a directory: QFile cannot open it
IsDirectoryPath(p) == Len(p) > 0 /\ p[Len(p)] = "/"

\* QFileInfo(filename).absolutePath(): the path without its last component
RECURSIVE AbsolutePath(_)
AbsolutePath(p) ==
    IF Len(p) <= 1 THEN p
    ELSE IF p[Len(p)] = "/" THEN SubSeq(p, 1, Len(p) - 1)
    ELSE AbsolutePath(SubSeq(p, 1, Len(p) - 1))

\* every path log() can hand to QFile: the resolved file names, and the
\* documents directory itself for the empty file name of a new component
Paths == { Resolved(f) : f \in Filenames \cup { << >> } }

(* ------------------------------- state -------------------------------- *)

VARIABLES
    filename,         \* QString filename
    header,           \* QList<QString> header
    logTime,          \* bool logTime
    toConsole,        \* bool toConsole
    fileNeedsReopen,  \* bool fileNeedsReopen
    writing,          \* bool writing
    fileName,         \* QFile file: the name given by file.setFileName()
    fileOpen,         \* QFile file: file.isOpen()
    buffer,           \* QTextStream writer: lines written and not yet flushed
    fs,               \* file system: path -> sequence of lines
    exists,           \* file system: paths of the files that exist
    dirs,             \* file system: directories that exist
    out,              \* the last operation and what it emitted
    run,              \* history: the log() calls of an undisturbed run on a new file
    ren,              \* history: the last change of file name and what followed it
    logged,           \* history: a row reached a file, and no close or rename since
    own,              \* history: the session that is writing found its file empty
    reset             \* history: close() or a changing setFilename() has been called

vars == << filename, header, logTime, toConsole, fileNeedsReopen, writing,
           fileName, fileOpen, buffer, fs, exists, dirs, out, run, ren, logged, own, reset >>

config  == << filename, header, logTime, toConsole >>
session == << fileNeedsReopen, writing, fileName, fileOpen, buffer >>
disk    == << fs, exists, dirs >>

\* a line some other program left in a file before the logger ran
ForeignLine == [kind |-> "foreign", text |-> <<"old">>]

\* writer << buildHeaderString() << "\n" and writer << buildLogLine(data) << "\n"
HeaderLine(lt, hdr)   == [kind |-> "header", text |-> buildHeaderString(lt, hdr)]
DataLine(lt, data, t) == [kind |-> "data", text |-> buildLogLine(lt, data, t)]

RECURSIVE SumLen(_, _)
SumLen(f, S) == IF S = {} THEN 0
                ELSE LET p == CHOOSE q \in S : TRUE IN Len(f[p]) + SumLen(f, S \ {p})

TotalLines == SumLen(fs, Paths)

NoTime == [sec |-> "", ms |-> ""]

\* The record of an operation that emitted nothing.  same: the setter's
\* argument equalled the stored value; data, time, en: the inputs of log();
\* open: what file.open() answered ("none": not called); retry: the call
\* before this one was a log() whose open failed; critical: the qCritical()
\* messages; warning: the number of qWarning() messages; console: the
\* qDebug() messages; signals: the signals emitted.
Quiet(op) == [op |-> op, same |-> FALSE, data |-> << >>, time |-> NoTime, en |-> TRUE,
              open |-> "none", retry |-> FALSE,
              critical |-> << >>, warning |-> 0, console |-> << >>, signals |-> {}]

(* ------------------------------ histories ----------------------------- *)
(* run and ren record what the caller and the file system did, so that     *)
(* properties over several calls can be stated.  No operation reads them.  *)

\* no undisturbed run is in progress
NoRun == [clean |-> FALSE, calls |-> << >>]

\* A run starts when setFilename stores a new name.  It stays undisturbed
\* while, after any configuration before the first row, only enabled
\* file-mode log() calls happen, the file system lets every open succeed,
\* and the file was absent or empty at the first of them.
RunAfterLog(data, t, oc, en) ==
    IF /\ run.clean /\ en /\ ~toConsole /\ oc = "ok"
       /\ (run.calls = << >> => fs[Resolved(filename)] = << >>)
    THEN [run EXCEPT !.calls = Append(@, [data |-> data, time |-> t])]
    ELSE NoRun

RunAfterOther == IF run.clean /\ run.calls = << >> THEN run ELSE NoRun

NoRename == [stage |-> "none", to |-> << >>, wasEmpty |-> FALSE, changed |-> {}]

\* setFilename stored the new name f: remember it, and whether its file is
\* absent or empty (newFs: the files after the flush of setFilename)
RenAfterRename(f, newFs) ==
    [stage |-> "pending", to |-> f, wasEmpty |-> (newFs[Resolved(f)] = << >>),
     changed |-> {}]

\* any other step: the first one after the rename that changes a file is
\* marked "first", together with the files it changed
RenAfterStep(newFs) ==
    IF ren.stage = "pending" /\ newFs # fs
    THEN [ren EXCEPT !.stage = "first", !.changed = {p \in Paths : newFs[p] # fs[p]}]
    ELSE IF ren.stage = "first"
    THEN NoRename
    ELSE ren

\* a log() call moved a row into a file; close() and a changing
\* setFilename() end that
LoggedAfterLog(newFs) == IF newFs # fs THEN TRUE ELSE logged

\* the first row of a session tells whether the session found its file
\* empty, and so wrote the header line itself; later rows keep the answer
OwnAfterLog(newFs) ==
    IF newFs # fs /\ ~logged
    THEN \A p \in Paths : newFs[p] # fs[p] => fs[p] = << >>
    ELSE own

(* ---------------------------- construction ---------------------------- *)

\* fault: the component starts with the reopen pending
InitialFileNeedsReopenTrue == TRUE

\* fileNeedsReopen = false; writing = false; in CSVLogger::CSVLogger
InitialFileNeedsReopen == FALSE
InitialWriting == FALSE

\* CSVLogger::CSVLogger; the file system is as earlier programs left it:
\* /a is absent, present and empty, or present with content.
Init ==
    /\ filename = << >>
    /\ header = << >>
    /\ logTime = TRUE
    /\ toConsole = FALSE
    /\ fileNeedsReopen = InitialFileNeedsReopen
    /\ writing = InitialWriting
    /\ fileName = << >>
    /\ fileOpen = FALSE
    /\ buffer = << >>
    /\ \E old \in { << >>, <<ForeignLine>> } :
         fs = [p \in Paths |-> IF p = <<"/", "a">> THEN old ELSE << >>]
    /\ exists \in { {}, { <<"/", "a">> } }
    /\ (fs[<<"/", "a">>] # << >>) => (<<"/", "a">> \in exists)
    /\ dirs = { <<"/">> }
    /\ out = Quiet("new")
    /\ run = NoRun
    /\ ren = NoRename
    /\ logged = FALSE
    /\ own = FALSE
    /\ reset = FALSE

(* ------------------------- writer and file ---------------------------- *)

\* fault: the flush leaves the lines in the writer, short of the device
FlushedFsShort(f, buf, name, open) == f

\* fault: the device is not in append mode, the lines replace the content
FlushedFsOverwrites(f, buf, name, open) ==
    IF open /\ buf # << >> THEN [f EXCEPT ![name] = buf] ELSE f

\* writer.flush(): the buffered lines reach the device if it is open
FlushedFs(f, buf, name, open) ==
    IF open /\ buf # << >> THEN [f EXCEPT ![name] = @ \o buf] ELSE f

\* fault: the test of file.pos() inverted
filePosNonZero(content) == Len(content) # 0

\* file.pos() == 0 right after an open in append mode: the file is empty
filePosIsZero(content) == Len(content) = 0

\* file.open(WriteOnly | Append) on path name, after mkpath left the
\* directories dirs1: oc is the file system's answer for an openable path
fileOpens(oc, name, dirs1) ==
    /\ oc # "openFails"
    /\ ~fileOpen
    /\ ~IsDirectoryPath(name)
    /\ AbsolutePath(name) \in dirs1

\* fault: the flags are set before the result of the open is looked at
ReopenFlagsEarly(opened) == [fileNeedsReopen |-> FALSE, writing |-> TRUE]

\* the flags after the open of the reopen step: log() returns before it
\* touches them when the open failed
ReopenFlags(opened) ==
    IF opened THEN [fileNeedsReopen |-> FALSE, writing |-> TRUE]
    ELSE [fileNeedsReopen |-> fileNeedsReopen, writing |-> writing]

(* ------------------------------ operations ---------------------------- *)

\* fault: toConsole is stored whatever writing is
SetToConsoleUnguarded(b) ==
    /\ toConsole' = b
    /\ out' = [Quiet("setToConsole") EXCEPT
                 !.same = (toConsole = b),
                 !.signals = IF toConsole # b THEN {"toConsoleChanged"} ELSE {}]
    /\ run' = RunAfterOther
    /\ ren' = RenAfterStep(fs)
    /\ UNCHANGED << filename, header, logTime, session, disk, logged, own, reset >>

\* toConsole setter (declared in CSVLogger.h)
SetToConsole(b) ==
    LET call == [Quiet("setToConsole") EXCEPT !.same = (toConsole = b)]
    IN  /\ IF toConsole # b /\ writing
           THEN /\ out' = [call EXCEPT
                             !.critical = <<"toConsole cannot be changed while writing">>]
                /\ UNCHANGED toConsole
           ELSE /\ toConsole' = b
                /\ out' = [call EXCEPT
                             !.signals = IF toConsole # b THEN {"toConsoleChanged"} ELSE {}]
        /\ run' = RunAfterOther
        /\ ren' = RenAfterStep(fs)
        /\ UNCHANGED << filename, header, logTime, session, disk, logged, own, reset >>

\* fault: close() forgets to clear writing
closeKeepsWriting ==
    /\ fs' = FlushedFs(fs, buffer, fileName, fileOpen)
    /\ buffer' = << >>
    /\ fileOpen' = FALSE
    /\ fileNeedsReopen' = TRUE
    /\ out' = Quiet("close")
    /\ run' = RunAfterOther
    /\ ren' = RenAfterStep(fs')
    /\ logged' = FALSE
    /\ own' = FALSE
    /\ reset' = TRUE
    /\ UNCHANGED << config, writing, fileName, exists, dirs >>

\* fault: close() forgets to ask for a reopen
closeNoReopen ==
    /\ fs' = FlushedFs(fs, buffer, fileName, fileOpen)
    /\ buffer' = << >>
    /\ fileOpen' = FALSE
    /\ writing' = FALSE
    /\ out' = Quiet("close")
    /\ run' = RunAfterOther
    /\ ren' = RenAfterStep(fs')
    /\ logged' = FALSE
    /\ own' = FALSE
    /\ reset' = TRUE
    /\ UNCHANGED << config, fileNeedsReopen, fileName, exists, dirs >>

\* fault: close() flushes and sets the flags, the handle stays open
closeKeepsHandle ==
    /\ fs' = FlushedFs(fs, buffer, fileName, fileOpen)
    /\ buffer' = << >>
    /\ fileNeedsReopen' = TRUE
    /\ writing' = FALSE
    /\ out' = Quiet("close")
    /\ run' = RunAfterOther
    /\ ren' = RenAfterStep(fs')
    /\ logged' = FALSE
    /\ own' = FALSE
    /\ reset' = TRUE
    /\ UNCHANGED << config, fileOpen, fileName, exists, dirs >>

\* CSVLogger::close
close ==
    /\ fs' = FlushedFs(fs, buffer, fileName, fileOpen)
    /\ buffer' = << >>
    /\ fileOpen' = FALSE
    /\ fileNeedsReopen' = TRUE
    /\ writing' = FALSE
    /\ out' = Quiet("close")
    /\ run' = RunAfterOther
    /\ ren' = RenAfterStep(fs')
    /\ logged' = FALSE
    /\ own' = FALSE
    /\ reset' = TRUE
    /\ UNCHANGED << config, fileName, exists, dirs >>

\* fault: the new name is stored, the open file and the flags are kept
setFilenameKeepsFile(f) ==
    LET call == [Quiet("setFilename") EXCEPT !.same = (filename = f)]
    IN  /\ IF filename # f
           THEN /\ filename' = f
                /\ out' = [call EXCEPT !.signals = {"filenameChanged"}]
           ELSE /\ out' = call
                /\ UNCHANGED filename
        /\ run' = IF filename # f THEN [clean |-> TRUE, calls |-> << >>] ELSE RunAfterOther
        /\ ren' = IF filename # f THEN RenAfterRename(f, fs) ELSE RenAfterStep(fs)
        /\ logged' = IF filename # f THEN FALSE ELSE logged
        /\ own' = IF filename # f THEN FALSE ELSE own
        /\ reset' = (reset \/ filename # f)
        /\ UNCHANGED << header, logTime, toConsole, session, disk >>

\* fault: the comparison with the stored name is missing
setFilenameAlways(f) ==
    /\ fs' = FlushedFs(fs, buffer, fileName, fileOpen)
    /\ buffer' = << >>
    /\ fileOpen' = FALSE
    /\ filename' = f
    /\ fileNeedsReopen' = TRUE
    /\ writing' = FALSE
    /\ out' = [Quiet("setFilename") EXCEPT !.same = (filename = f),
                                          !.signals = {"filenameChanged"}]
    /\ run' = IF filename # f THEN [clean |-> TRUE, calls |-> << >>] ELSE RunAfterOther
    /\ ren' = IF filename # f THEN RenAfterRename(f, fs') ELSE RenAfterStep(fs')
    /\ logged' = IF filename # f THEN FALSE ELSE logged
    /\ own' = IF filename # f THEN FALSE ELSE own
    /\ reset' = (reset \/ filename # f)
    /\ UNCHANGED << header, logTime, toConsole, fileName, exists, dirs >>

\* fault: a relative name that resolves to the stored path counts as the
\* stored name
setFilenameResolving(f) ==
    LET call == [Quiet("setFilename") EXCEPT !.same = (filename = f)]
        differs == filename # f /\ filename # Resolved(f)
    IN  /\ IF differs
           THEN /\ fs' = FlushedFs(fs, buffer, fileName, fileOpen)
                /\ buffer' = << >>
                /\ fileOpen' = FALSE
                /\ filename' = f
                /\ fileNeedsReopen' = TRUE
                /\ writing' = FALSE
                /\ out' = [call EXCEPT !.signals = {"filenameChanged"}]
           ELSE /\ out' = call
                /\ UNCHANGED << filename, fileNeedsReopen, writing, fileOpen, buffer, fs >>
        /\ run' = IF differs THEN [clean |-> TRUE, calls |-> << >>] ELSE RunAfterOther
        /\ ren' = IF differs THEN RenAfterRename(f, fs') ELSE RenAfterStep(fs')
        /\ logged' = IF differs THEN FALSE ELSE logged
        /\ own' = IF differs THEN FALSE ELSE own
        /\ reset' = (reset \/ differs)
        /\ UNCHANGED << header, logTime, toConsole, fileName, exists, dirs >>

\* CSVLogger::setFilename
setFilename(f) ==
    LET call == [Quiet("setFilename") EXCEPT !.same = (filename = f)]
    IN  /\ IF filename # f
           THEN /\ fs' = FlushedFs(fs, buffer, fileName, fileOpen)
                /\ buffer' = << >>
                /\ fileOpen' = FALSE
                /\ filename' = f
                /\ fileNeedsReopen' = TRUE
                /\ writing' = FALSE
                /\ out' = [call EXCEPT !.signals = {"filenameChanged"}]
           ELSE /\ out' = call
                /\ UNCHANGED << filename, fileNeedsReopen, writing, fileOpen, buffer, fs >>
        /\ run' = IF filename # f THEN [clean |-> TRUE, calls |-> << >>] ELSE RunAfterOther
        /\ ren' = IF filename # f THEN RenAfterRename(f, fs') ELSE RenAfterStep(fs')
        /\ logged' = IF filename # f THEN FALSE ELSE logged
        /\ own' = IF filename # f THEN FALSE ELSE own
        /\ reset' = (reset \/ filename # f)
        /\ UNCHANGED << header, logTime, toConsole, fileName, exists, dirs >>

\* fault: the rejected change is dropped without the qCritical() message
setLogTimeSilent(b) ==
    LET call == [Quiet("setLogTime") EXCEPT !.same = (logTime = b)]
    IN  /\ IF logTime # b /\ ~writing
           THEN /\ logTime' = b
                /\ out' = [call EXCEPT !.signals = {"logTimeChanged"}]
           ELSE /\ out' = call
                /\ UNCHANGED logTime
        /\ run' = RunAfterOther
        /\ ren' = RenAfterStep(fs)
        /\ UNCHANGED << filename, header, toConsole, session, disk, logged, own, reset >>

\* fault: logTime changes while file writing is in progress
setLogTimeUnguarded(b) ==
    LET call == [Quiet("setLogTime") EXCEPT !.same = (logTime = b)]
    IN  /\ IF logTime # b
           THEN /\ logTime' = b
                /\ out' = [call EXCEPT !.signals = {"logTimeChanged"}]
           ELSE /\ out' = call
                /\ UNCHANGED logTime
        /\ run' = RunAfterOther
        /\ ren' = RenAfterStep(fs)
        /\ UNCHANGED << filename, header, toConsole, session, disk, logged, own, reset >>

\* CSVLogger::setLogTime
setLogTime(b) ==
    LET call == [Quiet("setLogTime") EXCEPT !.same = (logTime = b)]
    IN  /\ IF logTime # b
           THEN IF writing
                THEN /\ out' = [call EXCEPT
                                  !.critical = <<"logTime cannot be changed while writing">>]
                     /\ UNCHANGED logTime
                ELSE /\ logTime' = b
                     /\ out' = [call EXCEPT !.signals = {"logTimeChanged"}]
           ELSE /\ out' = call
                /\ UNCHANGED logTime
        /\ run' = RunAfterOther
        /\ ren' = RenAfterStep(fs)
        /\ UNCHANGED << filename, header, toConsole, session, disk, logged, own, reset >>

\* fault: the test of writing left out
setHeaderUnguarded(h) ==
    LET call == [Quiet("setHeader") EXCEPT !.same = (header = h)]
    IN  /\ IF header # h
           THEN /\ header' = h
                /\ out' = [call EXCEPT !.signals = {"headerChanged"}]
           ELSE /\ out' = call
                /\ UNCHANGED header
        /\ run' = RunAfterOther
        /\ ren' = RenAfterStep(fs)
        /\ UNCHANGED << filename, logTime, toConsole, session, disk, logged, own, reset >>

\* fault: the header is stored without emit headerChanged()
setHeaderNoSignal(h) ==
    LET call == [Quiet("setHeader") EXCEPT !.same = (header = h)]
    IN  /\ IF header # h
           THEN IF writing
                THEN /\ out' = [call EXCEPT
                                  !.critical = <<"header cannot be changed while writing">>]
                     /\ UNCHANGED header
                ELSE /\ header' = h
                     /\ out' = call
           ELSE /\ out' = call
                /\ UNCHANGED header
        /\ run' = RunAfterOther
        /\ ren' = RenAfterStep(fs)
        /\ UNCHANGED << filename, logTime, toConsole, session, disk, logged, own, reset >>

\* CSVLogger::setHeader
setHeader(h) ==
    LET call == [Quiet("setHeader") EXCEPT !.same = (header = h)]
    IN  /\ IF header # h
           THEN IF writing
                THEN /\ out' = [call EXCEPT
                                  !.critical = <<"header cannot be changed while writing">>]
                     /\ UNCHANGED header
                ELSE /\ header' = h
                     /\ out' = [call EXCEPT !.signals = {"headerChanged"}]
           ELSE /\ out' = call
                /\ UNCHANGED header
        /\ run' = RunAfterOther
        /\ ren' = RenAfterStep(fs)
        /\ UNCHANGED << filename, logTime, toConsole, session, disk, logged, own, reset >>

\* log(), file mode: the reopen step if fileNeedsReopen, then the write.
\* call: what log() has emitted so far.
logToFile(call, data, t, oc) ==
    LET line == DataLine(logTime, data, t)
        warn == LengthWarning(header, data)
    IN
    IF fileNeedsReopen
    THEN LET name    == Resolved(filename)
             sig     == IF IsAbsolute(filename) THEN {} ELSE {"filenameChanged"}
             opening == <<"Opening">> \o name
             dirs1   == IF oc = "mkpathFails" THEN dirs ELSE dirs \cup {AbsolutePath(name)}
             opened  == fileOpens(oc, name, dirs1)
             flags   == ReopenFlags(opened)
             hdr     == IF filePosIsZero(fs[name]) THEN <<HeaderLine(logTime, header)>>
                        ELSE << >>
             said    == [call EXCEPT !.console = @ \o <<opening>>,
                                     !.signals = @ \cup sig,
                                     !.open = IF opened THEN "ok" ELSE "failed"]
         IN  /\ filename' = name
             /\ dirs' = dirs1
             /\ fileName' = IF fileOpen THEN fileName ELSE name
             /\ fileNeedsReopen' = flags.fileNeedsReopen
             /\ writing' = flags.writing
             /\ IF ~opened
                THEN /\ out' = [said EXCEPT !.critical = @ \o <<"Could not open file">>]
                     /\ UNCHANGED << fileOpen, buffer, fs, exists >>
                ELSE /\ fileOpen' = TRUE
                     /\ exists' = exists \cup {name}
                     /\ fs' = FlushedFs(FlushedFs(fs, buffer \o hdr, name, TRUE),
                                        <<line>>, name, TRUE)
                     /\ buffer' = << >>
                     /\ out' = [said EXCEPT !.warning = @ + warn]
             /\ UNCHANGED << header, logTime, toConsole >>
    ELSE IF fileOpen
    THEN /\ fs' = FlushedFs(fs, buffer \o <<line>>, fileName, TRUE)
         /\ buffer' = << >>
         /\ out' = [call EXCEPT !.warning = @ + warn]
         /\ UNCHANGED << config, fileNeedsReopen, writing, fileName, fileOpen, exists, dirs >>
    ELSE /\ out' = [call EXCEPT !.critical = @ \o <<"File is not open">>]
         /\ UNCHANGED << config, session, disk >>

\* fault: the return after qDebug() is missing, log() falls through
logToConsoleNoReturn(call, data, t, oc) ==
    logToFile([call EXCEPT !.console = @ \o <<buildLogLine(logTime, data, t)>>],
              data, t, oc)

\* log(), console mode: qDebug() << buildLogLine(data); return;
logToConsole(call, data, t, oc) ==
    /\ out' = [call EXCEPT !.console = @ \o <<buildLogLine(logTime, data, t)>>,
                           !.warning = @ + LengthWarning(header, data)]
    /\ UNCHANGED << config, session, disk >>

\* CSVLogger::log.  data: the row; t: the clock reading; oc: what the file
\* system does if this call reaches the reopen step; en: isEnabled().
log(data, t, oc, en) ==
    LET call == [Quiet("log") EXCEPT !.data = data, !.time = t, !.en = en,
                                     !.retry = (out.open = "failed")]
    IN  /\ IF ~en
           THEN /\ out' = call
                /\ UNCHANGED << config, session, disk >>
           ELSE IF toConsole
           THEN logToConsole(call, data, t, oc)
           ELSE logToFile(call, data, t, oc)
        /\ run' = RunAfterLog(data, t, oc, en)
        /\ ren' = RenAfterStep(fs')
        /\ logged' = LoggedAfterLog(fs')
        /\ own' = OwnAfterLog(fs')
        /\ UNCHANGED reset

(* ---------------------------- specification --------------------------- *)

\* log() is offered while the files hold fewer than MaxLines lines; a
\* disabled component returns before the file system is consulted
LogCall ==
    /\ TotalLines < MaxLines
    /\ \E data \in Rows, t \in Times, oc \in OpenOutcomes : log(data, t, oc, TRUE)

DisabledLogCall ==
    /\ TotalLines < MaxLines
    /\ \E data \in Rows, t \in Times : log(data, t, "ok", FALSE)

Next ==
    \/ \E b \in BOOLEAN : SetToConsole(b)
    \/ \E f \in Filenames : setFilename(f)
    \/ \E b \in BOOLEAN : setLogTime(b)
    \/ \E h \in Headers : setHeader(h)
    \/ LogCall
    \/ DisabledLogCall
    \/ close

Spec == Init /\ [][Next]_vars

TypeOK ==
    /\ filename \in Filenames \cup Paths \cup { << >> }
    /\ header \in Headers
    /\ logTime \in BOOLEAN /\ toConsole \in BOOLEAN
    /\ fileNeedsReopen \in BOOLEAN /\ writing \in BOOLEAN /\ fileOpen \in BOOLEAN
    /\ exists \subseteq Paths
    /\ \A p \in Paths : fs[p] # << >> => p \in exists

(* ------------------------------- claims ------------------------------- *)

\* the data lines the rows of calls make under the current configuration
RunLines(calls) ==
    [i \in 1..Len(calls) |-> DataLine(logTime, calls[i].data, calls[i].time)]

\* C1 (header once): after N >= 1 enabled file-mode log() calls in a row on
\* a file that was absent or empty at the first open, every open
\* succeeding, the file holds exactly one header line followed by exactly
\* the N data lines, in the order of the calls.
HeaderOnce ==
    (run.clean /\ Len(run.calls) >= 1) =>
        fs[Resolved(filename)] = <<HeaderLine(logTime, header)>> \o RunLines(run.calls)

\* two rows that differ have been logged in a row to a new file
HeaderOnceWitness ==
    /\ run.clean
    /\ Len(run.calls) = 2
    /\ run.calls[1].data # run.calls[2].data
    /\ Len(fs[Resolved(filename)]) = 3

\* C2 (reopen on rename): once setFilename has stored a different name,
\* the file open until then gets no further write (a step changes a file
\* only if it is a log() step and the file is the one the stored name
\* selects), and the next log() that writes, writes to the file of the new
\* name only; if that file was absent or empty it then holds exactly one
\* header line followed by that row.
ReopenOnRename ==
    /\ [][\A p \in Paths :
            fs'[p] # fs[p] => (out'.op = "log" /\ p = Resolved(filename))]_vars
    /\ [](ren.stage = "first" =>
            /\ out.op = "log"
            /\ ren.changed = {Resolved(ren.to)}
            /\ ren.wasEmpty =>
                 fs[Resolved(ren.to)] = << HeaderLine(logTime, header),
                                           DataLine(logTime, out.data, out.time) >>)

\* rows were logged to one file, the name was changed, and the next row
\* has just been written to the new, empty file
ReopenOnRenameWitness ==
    /\ ren.stage = "first"
    /\ ren.wasEmpty
    /\ \E p \in Paths : /\ p # Resolved(ren.to)
                        /\ Len(fs[p]) >= 2
                        /\ fs[p][1].kind = "header"

\* C3 (immutable while writing, value retained): a setHeader or setLogTime
\* call made while writing is true, with any argument, leaves header and
\* logTime as they were, emits neither headerChanged nor logTimeChanged, and
\* leaves the session (fileNeedsReopen, writing, the file, the writer) and
\* the files unchanged.
ImmutableWhileWriting ==
    [][(writing /\ out'.op \in {"setHeader", "setLogTime"}) =>
          /\ header' = header
          /\ logTime' = logTime
          /\ out'.signals \cap {"headerChanged", "logTimeChanged"} = {}
          /\ session' = session
          /\ disk' = disk]_vars

\* a setHeader call with a new header list has just been rejected
ImmutableWhileWritingWitness ==
    /\ writing
    /\ out.op = "setHeader"
    /\ ~out.same
    /\ out.critical # << >>

\* the claim C4 as stated: once a row has been logged to the file, and
\* until close() or a changing setFilename(), every setHeader or setLogTime
\* call produces a critical diagnostic, also one that passes the stored value
DiagnosticOnEveryCall ==
    (logged /\ out.op \in {"setHeader", "setLogTime"}) => out.critical # << >>

\* C4 (immutable while writing, diagnostic), amended: once a row has been
\* logged to the file, and until close() or a changing setFilename(), a
\* setHeader or setLogTime call produces a critical diagnostic if and only
\* if its argument differs from the stored value.
DiagnosticOnChange ==
    (logged /\ out.op \in {"setHeader", "setLogTime"}) =>
        (out.critical # << >> <=> ~out.same)

\* a setLogTime call with the other value has just been rejected
DiagnosticOnChangeWitness ==
    /\ logged
    /\ out.op = "setLogTime"
    /\ ~out.same
    /\ out.critical = <<"logTime cannot be changed while writing">>

\* the claim C5 as stated: a new component is in state NeedsReopen with
\* writing false, and its first enabled file-mode log() call, with no
\* setFilename or close() before it, executes the reopen step
FreshComponentReopens ==
    [][(out.op = "new" /\ out'.op = "log" /\ out'.en /\ ~toConsole) =>
          /\ fileNeedsReopen /\ ~writing
          /\ out'.open # "none"]_vars

\* C5 (initial state), amended: a new component has fileNeedsReopen false,
\* writing false and no file open, and its first enabled file-mode log()
\* call, with no setFilename or close() before it, skips the reopen step:
\* it opens nothing, changes neither the session nor any file or directory,
\* and reports the critical diagnostic "File is not open".
FreshComponentNotOpen ==
    /\ [](out.op = "new" => (~fileNeedsReopen /\ ~writing /\ ~fileOpen))
    /\ [][(out.op = "new" /\ out'.op = "log" /\ out'.en /\ ~toConsole) =>
             /\ out'.open = "none"
             /\ out'.critical = <<"File is not open">>
             /\ filename' = filename
             /\ session' = session
             /\ disk' = disk]_vars

\* log() has just been called on a component that was never given a name
FreshComponentNotOpenWitness ==
    /\ out.op = "log"
    /\ out.en
    /\ filename = << >>
    /\ out.critical = <<"File is not open">>

\* the file a successful open of the reopen step leaves behind: the header
\* line if the file was empty, then the row
AfterOpen(content, data, t) ==
    content \o (IF content = << >> THEN <<HeaderLine(logTime, header)>> ELSE << >>)
            \o <<DataLine(logTime, data, t)>>

\* C6 (open failure): a log() call in state NeedsReopen whose open fails
\* reports a critical diagnostic, writes to no file and creates none, and
\* leaves fileNeedsReopen true and writing false; every enabled file-mode
\* log() call in state NeedsReopen attempts the open, so the next one
\* retries; and a call whose open succeeds appends to the file of the
\* stored name the header line (if the file was empty) and the row.
OpenFailure ==
    [][/\ (out'.op = "log" /\ out'.open = "failed") =>
            /\ fileNeedsReopen
            /\ out'.critical # << >>
            /\ fs' = fs /\ exists' = exists
            /\ fileNeedsReopen' /\ ~writing' /\ ~fileOpen'
       /\ (fileNeedsReopen /\ out'.op = "log" /\ out'.en /\ ~toConsole) =>
            out'.open # "none"
       /\ (out'.op = "log" /\ out'.open = "ok") =>
            fs' = [fs EXCEPT ![Resolved(filename)] =
                                AfterOpen(@, out'.data, out'.time)]]_vars

\* an open failed, and the log() call right after it opened the empty file
OpenFailureWitness ==
    /\ out.op = "log"
    /\ out.retry
    /\ out.open = "ok"
    /\ Len(fs[fileName]) = 2
    /\ fs[fileName][1].kind = "header"

\* C7 (session invariant): whenever writing is true the file is open,
\* fileNeedsReopen is false, the open file is the one the stored name
\* selects, and the first line of that file is a header line (or a line the
\* file held before the component first opened it), never a data line.
WritingImpliesOpen ==
    writing =>
        /\ fileOpen
        /\ ~fileNeedsReopen
        /\ fileName = Resolved(filename)
        /\ fs[fileName] # << >>
        /\ fs[fileName][1].kind \in {"header", "foreign"}

\* rows are being written to a file that starts with its header line
WritingImpliesOpenWitness ==
    /\ writing
    /\ Len(fs[fileName]) >= 2
    /\ fs[fileName][1].kind = "header"
    /\ fs[fileName][2].kind = "data"

\* C8 (console mode bypass): an enabled log() call made while toConsole is
\* true emits exactly one message to the console sink, the formatted data
\* line, and leaves filename, the session (fileNeedsReopen, writing, the
\* file, the writer), every file's content, the set of files and the
\* directories unchanged, whatever the session state was.
ConsoleBypass ==
    [][(toConsole /\ out'.op = "log" /\ out'.en) =>
          /\ out'.console = << buildLogLine(logTime, out'.data, out'.time) >>
          /\ filename' = filename
          /\ session' = session
          /\ disk' = disk]_vars

\* a row went to the console although a file name is set and a reopen is
\* pending, and no file exists
ConsoleBypassWitness ==
    /\ toConsole
    /\ out.op = "log"
    /\ out.en
    /\ Len(out.console) = 1
    /\ filename \in Filenames
    /\ fileNeedsReopen
    /\ exists = {}

\* C9 (console toggle guarded): while writing is true an attempt to change
\* toConsole leaves toConsole as it was and reports an error; so from the
\* first row logged to a file until close() or a changing setFilename(),
\* toConsole stays false.
ConsoleToggleGuarded ==
    /\ [][(writing /\ out'.op = "setToConsole") =>
             /\ toConsole' = toConsole
             /\ ~out'.same => out'.critical # << >>]_vars
    /\ [](logged => ~toConsole)

\* an attempt to switch to the console has just been rejected
ConsoleToggleGuardedWitness ==
    /\ writing
    /\ logged
    /\ out.op = "setToConsole"
    /\ ~out.same
    /\ out.critical # << >>

\* C10 (idempotent close): from any state close() reports no error and ends
\* with fileNeedsReopen true, writing false and the file closed; a close()
\* right after a close() changes neither the configuration, the session,
\* nor any file.
IdempotentClose ==
    [][out'.op = "close" =>
          /\ out'.critical = << >> /\ out'.warning = 0
          /\ fileNeedsReopen' /\ ~writing' /\ ~fileOpen'
          /\ out.op = "close" =>
               (config' = config /\ session' = session /\ disk' = disk)]_vars

\* close() has just closed a file that rows had been written to
IdempotentCloseWitness ==
    /\ out.op = "close"
    /\ fileNeedsReopen /\ ~writing /\ ~fileOpen
    /\ Len(fs[Resolved(filename)]) >= 2

\* C11 (setFilename guard): setFilename with the stored name changes
\* nothing (the file stays open, writing and fileNeedsReopen stay, nothing is
\* emitted); setFilename with another name closes the file, stores the new
\* name, sets fileNeedsReopen, clears writing, and leaves header, logTime
\* and the content of every file unchanged.
SetFilenameGuard ==
    [][out'.op = "setFilename" =>
          IF out'.same
          THEN /\ config' = config /\ session' = session /\ disk' = disk
               /\ out'.signals = {} /\ out'.critical = << >>
          ELSE /\ filename' # filename
               /\ ren'.stage = "pending" /\ filename' = ren'.to
               /\ ~fileOpen' /\ fileNeedsReopen' /\ ~writing'
               /\ header' = header /\ logTime' = logTime
               /\ fs' = fs]_vars

\* setFilename has just been called with the stored name while rows are
\* being written, and the file is still open
SetFilenameGuardWitness ==
    /\ out.op = "setFilename"
    /\ out.same
    /\ writing /\ fileOpen /\ ~fileNeedsReopen
    /\ Len(fs[fileName]) >= 2

\* the header line names a timestamp column
HasTimestampColumn(line) ==
    /\ Len(line.text) >= Len(timestampHeader)
    /\ SubSeq(line.text, 1, Len(timestampHeader)) = timestampHeader

\* the data line starts with a clock reading
StartsWithTimestamp(line) ==
    \E t \in Times :
        /\ Len(line.text) >= Len(FormatTime(t))
        /\ SubSeq(line.text, 1, Len(FormatTime(t))) = FormatTime(t)

\* the claim C12 as stated: in every file the component began, whatever
\* calls followed, the header line has a timestamp column exactly if
\* every data line starts with a timestamp.  close(), setLogTime() and a
\* log() that reopens the file break it.
ColumnsKeptPerFile ==
    \A p \in Paths :
        (fs[p] # << >> /\ fs[p][1].kind = "header") =>
            \A i \in 2..Len(fs[p]) :
                StartsWithTimestamp(fs[p][i]) <=> HasTimestampColumn(fs[p][1])

\* C12 (header/data column consistency, per session): while the session
\* that found the file absent or empty is writing (until close() or a
\* changing setFilename()), header and logTime stay what they were, the
\* header line of the file is built from them, and every data line starts
\* with a timestamp exactly if the header line has the timestamp column.
ColumnsKeptPerSession ==
    /\ [](own =>
            LET content == fs[Resolved(filename)]
            IN  /\ content[1] = HeaderLine(logTime, header)
                /\ HasTimestampColumn(content[1]) <=> logTime
                /\ \A i \in 2..Len(content) :
                      /\ content[i].kind = "data"
                      /\ StartsWithTimestamp(content[i]) <=> logTime)
    /\ [][(own /\ own') => (header' = header /\ logTime' = logTime)]_vars

\* a session that began its file has written two rows to it, and a
\* setLogTime() with another value has been turned down
ColumnsKeptPerSessionWitness ==
    /\ own
    /\ Len(fs[Resolved(filename)]) >= 3
    /\ out.op = "setLogTime"
    /\ ~out.same

\* C13 (optional header line), the claim as stated: a file the component
\* began never starts with an empty header line; with logTime false and an
\* empty header its first line is the first data row.  log() writes
\* buildHeaderString() and a newline whenever file.pos() is 0, so the
\* file then starts with an empty line.
HeaderLineOptional ==
    \A p \in Paths :
        (fs[p] # << >> /\ fs[p][1].kind = "header") => fs[p][1].text # << >>

\* C14 (length-mismatch tolerance): an enabled file-mode log() whose file
\* is open or opens appends exactly one line, built from every value of
\* the row, to that file and touches no other file; it warns exactly if
\* the row and the header differ in length; and whatever the length of the
\* row, it leaves the file open, writing set, no reopen pending and
\* nothing in the writer.
LengthMismatchTolerated ==
    [][(out'.op = "log" /\ out'.en /\ ~toConsole /\ out'.critical = << >>) =>
          LET p      == fileName'
              before == IF out'.open = "ok" /\ fs[p] = << >>
                        THEN <<HeaderLine(logTime, header)>>
                        ELSE fs[p]
          IN  /\ fs'[p] = before \o <<DataLine(logTime, out'.data, out'.time)>>
              /\ \A q \in Paths \ {p} : fs'[q] = fs[q]
              /\ out'.warning = (IF Len(out'.data) # Len(header) THEN 1 ELSE 0)
              /\ fileOpen' /\ writing' /\ ~fileNeedsReopen' /\ buffer' = << >>
              /\ header' = header /\ logTime' = logTime]_vars

\* a row longer than the header was appended, with a warning, to a file
\* that already held a row
LengthMismatchToleratedWitness ==
    /\ out.op = "log"
    /\ fileOpen
    /\ Len(out.data) > Len(header)
    /\ out.warning = 1
    /\ out.open = "none"
    /\ Len(fs[fileName]) >= 3
    /\ fs[fileName][Len(fs[fileName])] = DataLine(logTime, out.data, out.time)

\* C15 (change notifications): an operation emits filenameChanged,
\* headerChanged or logTimeChanged exactly if it changed the stored
\* filename, header or logTime; log() emits filenameChanged exactly if it
\* reached the reopen step with a relative filename, which it replaces by
\* the resolved path; a setter that was turned down or given the stored
\* value emits no signal.
ChangeNotifications ==
    [][out'.op \in {"setFilename", "setHeader", "setLogTime", "log", "close"} =>
          /\ ("filenameChanged" \in out'.signals) <=> (filename' # filename)
          /\ ("headerChanged" \in out'.signals) <=> (header' # header)
          /\ ("logTimeChanged" \in out'.signals) <=> (logTime' # logTime)
          /\ out'.op = "log" =>
                /\ ("filenameChanged" \in out'.signals) <=>
                      (out'.en /\ ~toConsole /\ fileNeedsReopen /\ ~IsAbsolute(filename))
                /\ ("filenameChanged" \in out'.signals) =>
                      (filename' = Resolved(filename) /\ IsAbsolute(filename'))
          /\ (out'.op # "log" /\ (out'.same \/ out'.critical # << >>)) =>
                out'.signals = {}]_vars

\* log() has replaced a relative filename by the resolved path, said so,
\* and written to the file of that path
ChangeNotificationsWitness ==
    /\ out.op = "log"
    /\ "filenameChanged" \in out.signals
    /\ filename = Resolved(<<"r">>)
    /\ fileOpen
    /\ fs[filename] # << >>

\* C16 (per-line durability): between operations the writer holds no
\* line, and when log(), close() or setFilename() returns, every file
\* holds what it held before followed by the lines the call wrote: the
\* header line, if log() opened an empty file, and the data line.
PerLineDurability ==
    /\ [](buffer = << >>)
    /\ [][out'.op \in {"log", "close", "setFilename"} =>
            LET wrote == /\ out'.op = "log" /\ out'.en /\ ~toConsole
                         /\ out'.critical = << >>
                lines == (IF out'.open = "ok" /\ fs[fileName'] = << >>
                          THEN <<HeaderLine(logTime, header)>> ELSE << >>)
                           \o <<DataLine(logTime, out'.data, out'.time)>>
            IN  \A p \in Paths :
                    fs'[p] = IF wrote /\ p = fileName' THEN fs[p] \o lines ELSE fs[p]]_vars

\* close() has returned on a file that holds a header line and two rows
PerLineDurabilityWitness ==
    /\ out.op = "close"
    /\ ~fileOpen
    /\ buffer = << >>
    /\ fileName \in Paths
    /\ Len(fs[fileName]) >= 3
    /\ fs[fileName][1].kind = "header"

(* ----------------------------- line layout ---------------------------- *)
(* buildHeaderString() and buildLogLine() on their own: the component is  *)
(* configured with any header list and logTime, then the two builders are *)
(* called with any row.  Header lists and rows have up to MaxFields       *)
(* entries.                                                               *)

MaxFields == 3

\* the sequences over S with at most n entries
UpTo(S, n) == UNION { [1..k -> S] : k \in 0..n }

\* header entries; row values: reals (QVariant::Double) and strings
LayoutNames  == { "a", "b" }
LayoutValues == { [type |-> "Double", milli |-> 3146, s |-> <<>>],
                  [type |-> "Double", milli |-> 5, s |-> <<>>],
                  [type |-> "String", milli |-> 0, s |-> <<"x">>] }

LayoutHeaders == UpTo(LayoutNames, MaxFields)
LayoutRows    == UpTo(LayoutValues, MaxFields)

\* a component whose header and logTime have been set, no file in use
LayoutInit ==
    /\ filename = << >>
    /\ header \in LayoutHeaders
    /\ logTime \in BOOLEAN
    /\ toConsole = FALSE
    /\ fileNeedsReopen = InitialFileNeedsReopen
    /\ writing = InitialWriting
    /\ fileName = << >>
    /\ fileOpen = FALSE
    /\ buffer = << >>
    /\ fs = [p \in Paths |-> << >>]
    /\ exists = {}
    /\ dirs = { <<"/">> }
    /\ out = Quiet("new")
    /\ run = NoRun
    /\ ren = NoRename
    /\ logged = FALSE
    /\ own = FALSE
    /\ reset = FALSE

\* buildHeaderString(); the string it returns is recorded in out.console
BuildHeaderCall ==
    /\ out' = [Quiet("buildHeaderString") EXCEPT
                 !.console = <<buildHeaderString(logTime, header)>>]
    /\ UNCHANGED << config, session, disk, run, ren, logged, own, reset >>

\* buildLogLine(data) at clock reading t
BuildLogLineCall ==
    \E data \in LayoutRows, t \in Times :
        /\ out' = [Quiet("buildLogLine") EXCEPT
                     !.data = data, !.time = t,
                     !.console = <<buildLogLine(logTime, data, t)>>,
                     !.warning = LengthWarning(header, data)]
        /\ UNCHANGED << config, session, disk, run, ren, logged, own, reset >>

LayoutNext == BuildHeaderCall \/ BuildLogLineCall

LayoutSpec == LayoutInit /\ [][LayoutNext]_vars

\* the ", "-join of a list of fields
RECURSIVE Join(_)
Join(fields) ==
    IF Len(fields) = 0 THEN << >>
    ELSE IF Len(fields) = 1 THEN fields[1]
    ELSE fields[1] \o <<", ">> \o Join(Tail(fields))

\* the number of separators in a line
Separators(line) == Cardinality({ i \in 1..Len(line) : line[i] = ", " })

\* the fields of the header line and of a data line
HeaderFields(lt, hdr) ==
    (IF lt THEN <<timestampHeader>> ELSE << >>) \o [i \in 1..Len(hdr) |-> <<hdr[i]>>]
LogLineFields(lt, data, t) ==
    (IF lt THEN <<FormatTime(t)>> ELSE << >>) \o [i \in 1..Len(data) |-> Render(data[i])]

\* C17 (line builder layout): buildHeaderString() is the ", "-join of the
\* timestamp header, if logTime, and the header entries in order;
\* buildLogLine(row) is the ", "-join of the timestamp, if logTime, and
\* the rendered values in order.  The line has one separator less than
\* fields, none first or last; an empty header or row gives the timestamp
\* field alone, or the empty string if logTime is false.
LineLayout ==
    LET line   == out.console[1]
        fields == IF out.op = "buildHeaderString"
                  THEN HeaderFields(logTime, header)
                  ELSE LogLineFields(logTime, out.data, out.time)
        count  == IF out.op = "buildHeaderString" THEN Len(header) ELSE Len(out.data)
        stamp  == IF out.op = "buildHeaderString" THEN timestampHeader
                  ELSE FormatTime(out.time)
    IN  out.op \in {"buildHeaderString", "buildLogLine"} =>
            /\ line = Join(fields)
            /\ Separators(line) = (IF Len(fields) = 0 THEN 0 ELSE Len(fields) - 1)
            /\ line # << >> => (line[1] # ", " /\ line[Len(line)] # ", ")
            /\ count = 0 => line = (IF logTime THEN stamp ELSE << >>)

\* a row of three values, a real among them, has been laid out with its
\* timestamp
LineLayoutWitness ==
    /\ out.op = "buildLogLine"
    /\ logTime
    /\ Len(out.data) = MaxFields
    /\ \E i \in 1..Len(out.data) : out.data[i].type = "Double"
    /\ \E i \in 1..Len(out.data) : out.data[i].type = "String"
    /\ Len(header) = 2

\* C18 (flags and handle): between operations writing holds exactly if
\* the file is open; once close() or a changing setFilename() has been
\* called, fileNeedsReopen holds exactly if the file is closed; so a log()
\* that ends in "File is not open" happens only on a component on which
\* neither has been called.
FlagsFollowHandle ==
    /\ writing <=> fileOpen
    /\ reset => (fileNeedsReopen <=> ~fileOpen)
    /\ (out.op = "log" /\ out.critical = <<"File is not open">>) => ~reset

\* after close() or a rename, a log() whose open failed has left the file
\* closed and the reopen pending, on a file that holds rows
FlagsFollowHandleWitness ==
    /\ reset
    /\ out.op = "log"
    /\ out.open = "failed"
    /\ fileNeedsReopen /\ ~fileOpen /\ ~writing
    /\ \E p \in Paths : Len(fs[p]) >= 2

\* the content a begins the content b
IsPrefix(a, b) == Len(a) <= Len(b) /\ SubSeq(b, 1, Len(a)) = a

\* C19 (append only): no operation shortens, rewrites or reorders what a
\* file holds: after every step each file begins with the content it had
\* before the step, and so with the content of every earlier state.
AppendOnly ==
    [][\A p \in Paths : IsPrefix(fs[p], fs'[p])]_vars

\* a file the component began earlier has been reopened, not empty, and
\* a row was appended behind what it held
AppendOnlyWitness ==
    /\ out.op = "log"
    /\ out.open = "ok"
    /\ ~own
    /\ Len(fs[fileName]) >= 3
    /\ fs[fileName][1].kind = "header"

\* the relative file names
RelativeNames == { f \in Filenames : ~IsAbsolute(f) }

\* C20 (relative name given again): when log() has replaced the relative
\* name r by its resolved path, setFilename(r) is a change: the file is
\* closed, the reopen is pending, writing is off and filenameChanged is
\* emitted.  The log() that follows resolves r to the same path, reopens
\* the file, which is not empty, and appends its row with no header line.
RelativeNameAgain ==
    /\ [][\A r \in RelativeNames :
            (filename = Resolved(r) /\ setFilename(r)) =>
                /\ ~out'.same
                /\ out'.signals = {"filenameChanged"}
                /\ filename' = r
                /\ ~fileOpen' /\ fileNeedsReopen' /\ ~writing'
                /\ fs' = fs]_vars
    /\ [][\A r \in RelativeNames :
            (/\ out.op = "setFilename" /\ ~out.same
             /\ filename = r /\ fileName = Resolved(r)
             /\ fs[Resolved(r)] # << >>
             /\ out'.op = "log" /\ out'.open = "ok") =>
                /\ filename' = Resolved(r) /\ fileName' = Resolved(r)
                /\ "filenameChanged" \in out'.signals
                /\ fileOpen' /\ writing' /\ ~fileNeedsReopen'
                /\ fs'[Resolved(r)] =
                      fs[Resolved(r)] \o <<DataLine(logTime, out'.data, out'.time)>>]_vars

\* the relative name was given again after rows had gone to its file, and
\* the next log() has appended a row to that file, whose one header line
\* is its first line
RelativeNameAgainWitness ==
    /\ out.op = "log" /\ out.open = "ok"
    /\ "filenameChanged" \in out.signals
    /\ ren.stage = "first" /\ ren.to \in RelativeNames /\ ~ren.wasEmpty
    /\ filename = Resolved(ren.to) /\ fileName = filename
    /\ Len(fs[fileName]) >= 3
    /\ fs[fileName][1].kind = "header"
    /\ \A i \in 2..Len(fs[fileName]) : fs[fileName][i].kind = "data"

====
